---- MODULE Spec2Model ----
(***************************************************************************)
(* React adapter around the Svelte GeocodingControl.                       *)
(*                                                                         *)
(* Two variants of the adapter exist:                                      *)
(*   "ext"  : src/src/react.ts      (27 options, 5 imperative methods)      *)
(*   "base" : src/src/lib/react.ts  (25 options, 3 imperative methods)      *)
(*                                                                         *)
(* Names (option names, event names, callback property names) are          *)
(* sequences of one-character strings so that getEventFnName can be        *)
(* computed character by character, as the source does.                    *)
(*                                                                         *)
(* React's hook rules used below: passive effects of one commit run        *)
(* synchronously; first the cleanups of every effect whose dependency      *)
(* list changed (Object.is), in declaration order, then those effects, in  *)
(* declaration order; at unmount every stored cleanup runs in declaration  *)
(* order.  StrictMode's development-only double invocation is not          *)
(* modelled.                                                               *)
(*                                                                         *)
(* The wrapped GeocodingControl is outside src/; it is modelled by its     *)
(* interface (constructor, $set, $on returning an unsubscribe function,    *)
(* $destroy, the imperative methods, events with a detail).  The calls a   *)
(* step makes on it are collected, in order, in the calls field of the     *)
(* record the step's effects thread through; the state keeps what the      *)
(* calls leave behind (received, subs, the counters).                      *)
(***************************************************************************)
EXTENDS Integers, Sequences, FiniteSets, TLC

(* ---------------------------------------------------------------- bounds *)
MaxSubs == 2        \* total subscriptions held on the wrapped instance

(* JavaScript undefined (an omitted option, callback or argument) *)
Undef == 0

(* ----------------------------------------------------------------- names *)
eventNames ==
  << <<"f","e","a","t","u","r","e","s","L","i","s","t","e","d">>,
     <<"f","e","a","t","u","r","e","s","M","a","r","k","e","d">>,
     <<"o","p","t","i","o","n","s","V","i","s","i","b","i","l","i","t","y","C","h","a","n","g","e">>,
     <<"p","i","c","k">>,
     <<"q","u","e","r","y","C","h","a","n","g","e">>,
     <<"r","e","s","p","o","n","s","e">>,
     <<"r","e","v","e","r","s","e","T","o","g","g","l","e">>,
     <<"s","e","l","e","c","t">> >>

propertyNamesExt ==
  << <<"a","d","j","u","s","t","U","r","l","Q","u","e","r","y">>,
     <<"a","p","i","K","e","y">>,
     <<"b","b","o","x">>,
     <<"c","l","e","a","r","B","u","t","t","o","n","T","i","t","l","e">>,
     <<"c","l","e","a","r","O","n","B","l","u","r">>,
     <<"c","o","l","l","a","p","s","e","d">>,
     <<"c","o","u","n","t","r","y">>,
     <<"d","e","b","o","u","n","c","e","S","e","a","r","c","h">>,
     <<"e","n","a","b","l","e","R","e","v","e","r","s","e">>,
     <<"e","r","r","o","r","M","e","s","s","a","g","e">>,
     <<"e","x","c","l","u","d","e","T","y","p","e","s">>,
     <<"f","i","l","t","e","r">>,
     <<"f","u","z","z","y","M","a","t","c","h">>,
     <<"l","a","n","g","u","a","g","e">>,
     <<"l","i","m","i","t">>,
     <<"m","a","p","C","o","n","t","r","o","l","l","e","r">>,
     <<"m","i","n","L","e","n","g","t","h">>,
     <<"n","o","R","e","s","u","l","t","s","M","e","s","s","a","g","e">>,
     <<"p","i","c","k","e","d","R","e","s","u","l","t","S","t","y","l","e">>,
     <<"p","l","a","c","e","h","o","l","d","e","r">>,
     <<"p","r","o","x","i","m","i","t","y">>,
     <<"r","e","v","e","r","s","e","A","c","t","i","v","e">>,
     <<"r","e","v","e","r","s","e","B","u","t","t","o","n","T","i","t","l","e">>,
     <<"s","h","o","w","P","l","a","c","e","T","y","p","e">>,
     <<"s","h","o","w","R","e","s","u","l","t","s","W","h","i","l","e","T","y","p","i","n","g">>,
     <<"t","y","p","e","s">>,
     <<"z","o","o","m">> >>

propertyNamesBase ==
  << <<"a","p","i","K","e","y">>,
     <<"b","b","o","x">>,
     <<"c","l","e","a","r","B","u","t","t","o","n","T","i","t","l","e">>,
     <<"c","l","e","a","r","O","n","B","l","u","r">>,
     <<"c","o","l","l","a","p","s","e","d">>,
     <<"c","o","u","n","t","r","y">>,
     <<"d","e","b","o","u","n","c","e","S","e","a","r","c","h">>,
     <<"e","n","a","b","l","e","R","e","v","e","r","s","e">>,
     <<"e","r","r","o","r","M","e","s","s","a","g","e">>,
     <<"f","i","l","t","e","r">>,
     <<"f","u","z","z","y","M","a","t","c","h">>,
     <<"l","a","n","g","u","a","g","e">>,
     <<"l","i","m","i","t">>,
     <<"m","i","n","L","e","n","g","t","h">>,
     <<"n","o","R","e","s","u","l","t","s","M","e","s","s","a","g","e">>,
     <<"p","l","a","c","e","h","o","l","d","e","r">>,
     <<"p","r","o","x","i","m","i","t","y">>,
     <<"r","e","v","e","r","s","e","B","u","t","t","o","n","T","i","t","l","e">>,
     <<"s","h","o","w","F","u","l","l","G","e","o","m","e","t","r","y">>,
     <<"s","h","o","w","P","l","a","c","e","T","y","p","e">>,
     <<"s","h","o","w","R","e","s","u","l","t","s","W","h","i","l","e","T","y","p","i","n","g">>,
     <<"t","r","a","c","k","P","r","o","x","i","m","i","t","y">>,
     <<"t","y","p","e","s">>,
     <<"z","o","o","m">>,
     <<"m","a","p","C","o","n","t","r","o","l","l","e","r">> >>

(* a slip: both variants with the list of the extended one *)
propertyNames_ExtList(v) == propertyNamesExt

propertyNames(v) == IF v = "ext" THEN propertyNamesExt ELSE propertyNamesBase

(* String.prototype.toUpperCase on one character *)
toUpperCase(c) ==
  CASE c = "a" -> "A" [] c = "b" -> "B" [] c = "c" -> "C" [] c = "d" -> "D"
    [] c = "e" -> "E" [] c = "f" -> "F" [] c = "g" -> "G" [] c = "h" -> "H"
    [] c = "i" -> "I" [] c = "j" -> "J" [] c = "k" -> "K" [] c = "l" -> "L"
    [] c = "m" -> "M" [] c = "n" -> "N" [] c = "o" -> "O" [] c = "p" -> "P"
    [] c = "q" -> "Q" [] c = "r" -> "R" [] c = "s" -> "S" [] c = "t" -> "T"
    [] c = "u" -> "U" [] c = "v" -> "V" [] c = "w" -> "W" [] c = "x" -> "X"
    [] c = "y" -> "Y" [] c = "z" -> "Z" [] OTHER -> c

(* a naming slip: "on" + name, the first letter not capitalised *)
getEventFnName_NoCapital(name) == <<"o", "n">> \o name

(* "on" + name[0].toUpperCase() + name.slice(1) *)
getEventFnName(name) == <<"o", "n">> \o <<toUpperCase(Head(name))>> \o Tail(name)

(* The keys a caller puts in the configuration bag: an option both         *)
(* variants forward, an option only the ext variant lists (a key the base  *)
(* variant does not forward), and the callback properties of two events.   *)
(* showFullGeometry is an option only the base variant lists; no render of *)
(* the state space gives it, it serves where a key the ext variant does    *)
(* not forward is tried.                                                   *)
apiKey == <<"a","p","i","K","e","y">>
excludeTypes == <<"e","x","c","l","u","d","e","T","y","p","e","s">>
showFullGeometry == <<"s","h","o","w","F","u","l","l","G","e","o","m","e","t","r","y">>
onSelect == <<"o","n","S","e","l","e","c","t">>
onPick == <<"o","n","P","i","c","k">>
select == <<"s","e","l","e","c","t">>
pick == <<"p","i","c","k">>

OptionKeys == {apiKey, excludeTypes}
CallbackKeys == {onSelect, onPick}
CallerKeys == OptionKeys \cup CallbackKeys

OptionValues == {1, 2}   \* defined option values (and setQuery values)
Callbacks == {1, 2}      \* caller callbacks cb1, cb2
Payloads == {1, 2}       \* event payloads

(* type Props: every configuration bag a caller can render with; an        *)
(* omitted key reads as undefined                                          *)
Props ==
  { o @@ c : o \in [OptionKeys -> {Undef} \cup OptionValues],
             c \in [CallbackKeys -> {Undef} \cup Callbacks] }

(* props[key]: a key the caller did not supply reads as undefined *)
Get(p, key) == IF key \in DOMAIN p THEN p[key] ELSE Undef

Range(s) == { s[i] : i \in DOMAIN s }

(* the forwardable option names of a variant, as a set *)
ForwardableExt == Range(propertyNamesExt)
ForwardableBase == Range(propertyNamesBase)
Forwardable(v) == IF v = "ext" THEN ForwardableExt ELSE ForwardableBase

(* const options = { ...props }; delete options[getEventFnName(eventName)] *)
options(p) ==
  LET removed == { getEventFnName(eventNames[i]) : i \in DOMAIN eventNames }
  IN  [k \in (DOMAIN p) \ removed |-> p[k]]

(* ------------------------------------------------------------------ state *)
VARIABLES
  variant,      \* "ext" (src/src/react.ts) or "base" (src/src/lib/react.ts)
  phase,        \* "rendered" (first render committed, passive effects pending),
                \* "mounted", "failed" (mount effect threw), "unmounted"
  divRef,       \* divRef.current is set (TRUE) or still undefined (FALSE)
  props,        \* props of the latest render
  deps,         \* props of the latest commit: the dependency values the hooks store
  controlRef,   \* controlRef.current: 0 = undefined, else the id of the instance
  mountCleanup, \* cleanup stored for the mount effect: 0 = none, else id of `control`
  cleanups,     \* per event effect, by position in eventNames: the cleanup React
                \* stored: 0 = none, else the callback whose trampoline the stored
                \* unsubscribe function removes
  constructed,  \* number of constructor calls so far
  destroyed,    \* number of $destroy calls so far
  alive,        \* ids of the instances constructed and not destroyed
  received,     \* option values the instance holds (constructor bag, then $set)
  subs,         \* per event: the callbacks whose trampolines are subscribed, in order
  supplied      \* history: per option key, the value of the latest render that
                \* gave it a value other than undefined (Undef if none did)

vars == << variant, phase, divRef, props, deps, controlRef, mountCleanup, cleanups,
           constructed, destroyed, alive, received, subs, supplied >>

EmptyBag == [k \in {} |-> Undef]

EventSet == Range(eventNames)

NoSubs == [e \in EventSet |-> << >>]

NoCleanups == [i \in DOMAIN eventNames |-> 0]

(* One call on the wrapped instance.  bag: the object argument of the      *)
(* constructor or of $set; name, val: event and callback of $on / of an    *)
(* unsubscribe, or value of setQuery; flag: submit of setQuery (1 true,    *)
(* 2 false); live: the target instance was not destroyed when called.      *)
Call(op, bag, name, val, flag, live) ==
  [op |-> op, bag |-> bag, name |-> name, val |-> val, flag |-> flag, live |-> live]

(* The part of the state the effects read and write while one step runs,   *)
(* with the calls the step makes on the wrapped instance, in order         *)
World ==
  [controlRef |-> controlRef, mountCleanup |-> mountCleanup, cleanups |-> cleanups,
   constructed |-> constructed, destroyed |-> destroyed, alive |-> alive,
   received |-> received, subs |-> subs, calls |-> << >>]

(* ------------------------------------------------ the wrapped component *)
(* new GeocodingControl({ target, props: bag }) *)
New(w, bag) ==
  LET id == w.constructed + 1
  IN  [w EXCEPT !.constructed = id,
                !.alive = @ \cup {id},
                !.received = bag,
                !.subs = NoSubs,
                !.calls = Append(@, Call("new", bag, << >>, Undef, Undef, TRUE))]

(* instance.$set(bag) *)
Set(w, bag) ==
  [w EXCEPT !.received = bag @@ @,
            !.calls = Append(@, Call("$set", bag, << >>, Undef, Undef,
                                     w.controlRef \in w.alive))]

(* instance.$on(event, handler): a handler that is not a function is not   *)
(* subscribed                                                              *)
On(w, event, fn) ==
  [w EXCEPT !.subs[event] = IF fn = Undef THEN @ ELSE Append(@, fn),
            !.calls = Append(@, Call("$on", EmptyBag, event, fn, Undef,
                                     w.controlRef \in w.alive))]

(* first index of fn in s, 0 if none: Array.prototype.indexOf *)
IndexOf(s, fn) ==
  IF \E i \in DOMAIN s : s[i] = fn
  THEN CHOOSE i \in DOMAIN s : s[i] = fn /\ \A j \in 1..(i - 1) : s[j] # fn
  ELSE 0

(* the function $on returned: removes the handler it subscribed *)
Off(w, event, fn) ==
  LET s == w.subs[event]
      i == IndexOf(s, fn)
  IN  [w EXCEPT !.subs[event] = IF i = 0 THEN s
                                ELSE SubSeq(s, 1, i - 1) \o SubSeq(s, i + 1, Len(s)),
                !.calls = Append(@, Call("off", EmptyBag, event, fn, Undef,
                                         w.controlRef \in w.alive))]

(* instance.$destroy(): the subscriptions are not cleared *)
Destroy(w, id) ==
  [w EXCEPT !.alive = @ \ {id},
            !.destroyed = @ + 1,
            !.calls = Append(@, Call("$destroy", EmptyBag, << >>, Undef, Undef,
                                     id \in w.alive))]

(* instance.focus(), blur(), setQuery(value, submit), clearMap(), clearList() *)
Method(w, m, val, flag) ==
  [w EXCEPT !.calls = Append(@, Call(m, EmptyBag, << >>, val, flag,
                                     w.controlRef \in w.alive))]

(* ------------------------------------------------------------ the adapter *)
(* useEffect(() => { ...new GeocodingControl...; controlRef.current =      *)
(* control; return () => control.$destroy() }, []) once divRef is set      *)
MountEffect(w, p) ==
  LET c == New(w, options(p))
  IN  [c EXCEPT !.controlRef = c.constructed, !.mountCleanup = c.constructed]

(* a slip: the mount effect without its dependency list [] re-runs on any  *)
(* change of the props                                                     *)
MountDepsChanged_NoDeps(prev, cur) == prev # cur

(* the mount effect's dependency list is [] *)
MountDepsChanged(prev, cur) == FALSE

(* a slip: the option effect with the dependency list [] never runs again *)
PropDepsChanged_Never(propName, prev, cur) == FALSE

(* a slip: the option effect without a dependency list runs on every commit *)
PropDepsChanged_Always(propName, prev, cur) == TRUE

(* the option effect's dependency list is [props[propName]] *)
PropDepsChanged(propName, prev, cur) == Get(prev, propName) # Get(cur, propName)

(* getEventFnName(eventName) of each event effect, by position in          *)
(* eventNames                                                              *)
eventHandlerFnNames == [i \in DOMAIN eventNames |-> getEventFnName(eventNames[i])]

(* a slip: the event effect without a dependency list runs on every commit *)
EventDepsChanged_Always(i, prev, cur) == TRUE

(* the dependency list of the event effect of eventNames[i] is             *)
(* [eventHandlerFn]                                                        *)
EventDepsChanged(i, prev, cur) ==
  Get(prev, eventHandlerFnNames[i]) # Get(cur, eventHandlerFnNames[i])

(* a slip: the option effect without the `!== undefined` test *)
PropEffect_NoUndefCheck(w, propName, p) ==
  IF w.controlRef # 0
  THEN Set(w, propName :> Get(p, propName))
  ELSE w

(* body of the option effect *)
PropEffect(w, propName, p) ==
  IF w.controlRef # 0 /\ Get(p, propName) # Undef
  THEN Set(w, propName :> Get(p, propName))
  ELSE w

(* body of the event effect of eventNames[i]; its return value is the      *)
(* stored cleanup                                                          *)
EventEffect(v, w, i, p) ==
  LET eventName == eventNames[i]
      eventHandlerFn == Get(p, eventHandlerFnNames[i])
  IN  IF v = "ext"
      THEN IF eventHandlerFn # Undef /\ w.controlRef # 0
           THEN [On(w, eventName, eventHandlerFn) EXCEPT !.cleanups[i] = eventHandlerFn]
           ELSE [w EXCEPT !.cleanups[i] = 0]
      ELSE IF w.controlRef # 0
           THEN [On(w, eventName, eventHandlerFn) EXCEPT !.cleanups[i] = 0]
           ELSE [w EXCEPT !.cleanups[i] = 0]

(* run the cleanup React stored for the event effect of eventNames[i] *)
EventCleanup(w, i) ==
  IF w.cleanups[i] # 0
  THEN [Off(w, eventNames[i], w.cleanups[i]) EXCEPT !.cleanups[i] = 0]
  ELSE w

(* run the cleanup React stored for the mount effect *)
MountCleanup(w) ==
  IF w.mountCleanup # 0
  THEN [Destroy(w, w.mountCleanup) EXCEPT !.mountCleanup = 0]
  ELSE w

(* for (const propName of propertyNames) useEffect(...): the effects of     *)
(* names, in declaration order                                             *)
RECURSIVE PropEffects(_, _, _)
PropEffects(w, names, p) ==
  IF names = << >> THEN w
  ELSE PropEffects(PropEffect(w, Head(names), p), Tail(names), p)

(* for (const eventName of eventNames) useEffect(...): the effects at the  *)
(* positions in idx, in declaration order                                  *)
RECURSIVE EventEffects(_, _, _, _)
EventEffects(v, w, idx, p) ==
  IF idx = << >> THEN w
  ELSE EventEffects(v, EventEffect(v, w, Head(idx), p), Tail(idx), p)

(* the stored cleanups of the event effects at the positions in idx *)
RECURSIVE EventCleanups(_, _)
EventCleanups(w, idx) ==
  IF idx = << >> THEN w
  ELSE EventCleanups(EventCleanup(w, Head(idx)), Tail(idx))

(* positions of the event effects, in declaration order *)
eventIndexes == [i \in DOMAIN eventNames |-> i]

(* a slip: the option effects declared before the mount effect *)
CommitMount_PropsFirst(v, w, p) ==
  EventEffects(v, MountEffect(PropEffects(w, propertyNames(v), p), p), eventIndexes, p)

(* first commit: every effect runs, in declaration order *)
CommitMount(v, w, p) ==
  EventEffects(v, PropEffects(MountEffect(w, p), propertyNames(v), p), eventIndexes, p)

(* commit of a re-render: React compares each effect's dependency list     *)
(* with the stored one, runs the cleanups of the effects that changed,     *)
(* then those effects                                                      *)
CommitUpdate(v, w, prev, cur) ==
  LET runMount == MountDepsChanged(prev, cur)
      runProps == SelectSeq(propertyNames(v), LAMBDA n : PropDepsChanged(n, prev, cur))
      runEvents == SelectSeq(eventIndexes, LAMBDA i : EventDepsChanged(i, prev, cur))
      w1 == IF runMount THEN MountCleanup(w) ELSE w
      w2 == EventCleanups(w1, runEvents)
      w3 == IF runMount THEN MountEffect(w2, cur) ELSE w2
      w4 == PropEffects(w3, runProps, cur)
  IN  EventEffects(v, w4, runEvents, cur)

(* unmount: every stored cleanup, in declaration order *)
CommitUnmount(w) == EventCleanups(MountCleanup(w), eventIndexes)

(* useImperativeHandle(ref, () => ({ ... })) *)
Methods(v) ==
  IF v = "ext" THEN {"setQuery", "clearMap", "clearList", "focus", "blur"}
  ELSE {"setQuery", "focus", "blur"}

(* a slip: setQuery of the handle without `submit = true` *)
Handle_NoSubmitDefault(w, m, value, submit) ==
  IF w.controlRef = 0 THEN w
  ELSE IF m = "setQuery"
       THEN Method(w, m, value, submit)
       ELSE Method(w, m, Undef, Undef)

(* a slip: the handle without the `?.` test of controlRef.current *)
Handle_NoNullCheck(w, m, value, submit) ==
  IF m = "setQuery"
  THEN Method(w, m, value, IF submit = Undef THEN 1 ELSE submit)
  ELSE Method(w, m, Undef, Undef)

(* one method of the handle: controlRef.current?.m(...), submit = true     *)
(* when omitted                                                            *)
Handle(w, m, value, submit) ==
  IF w.controlRef = 0 THEN w
  ELSE IF m = "setQuery"
       THEN Method(w, m, value, IF submit = Undef THEN 1 ELSE submit)
       ELSE Method(w, m, Undef, Undef)

(* (e) => { eventHandlerFn(e.detail) } *)
Trampoline(eventHandlerFn, e) == [cb |-> eventHandlerFn, event |-> e.type, arg |-> e.detail]

(* the caller callbacks run, in order, when the instance raises e *)
Invoked(w, e) == [i \in DOMAIN w.subs[e.type] |-> Trampoline(w.subs[e.type][i], e)]

(* ---------------------------------------------------------------- actions *)
TotalSubs(w) ==
  LET RECURSIVE Sum(_)
      Sum(i) == IF i = 0 THEN 0 ELSE Len(w.subs[eventNames[i]]) + Sum(i - 1)
  IN  Sum(Len(eventNames))

Adopt(w) ==
  /\ controlRef' = w.controlRef
  /\ mountCleanup' = w.mountCleanup
  /\ cleanups' = w.cleanups
  /\ constructed' = w.constructed
  /\ destroyed' = w.destroyed
  /\ alive' = w.alive
  /\ received' = w.received
  /\ subs' = w.subs

Init ==
  /\ variant \in {"ext", "base"}
  /\ phase = "rendered"
  /\ divRef \in BOOLEAN
  /\ props \in Props
  /\ deps = props
  /\ controlRef = 0
  /\ mountCleanup = 0
  /\ cleanups = NoCleanups
  /\ constructed = 0
  /\ destroyed = 0
  /\ alive = {}
  /\ received = EmptyBag
  /\ subs = NoSubs
  /\ supplied = [k \in OptionKeys |-> props[k]]

(* a slip: the mount effect without `if (!divRef.current) throw` *)
Mount_NoHostCheck ==
  /\ phase = "rendered"
  /\ Adopt(CommitMount(variant, World, props))
  /\ phase' = "mounted"
  /\ UNCHANGED << variant, divRef, props, deps, supplied >>

(* the passive effects of the first commit run; the mount effect throws    *)
(* when divRef.current is not set, and no later effect of the component     *)
(* runs                                                                    *)
Mount ==
  /\ phase = "rendered"
  /\ IF divRef
     THEN /\ Adopt(CommitMount(variant, World, props))
          /\ phase' = "mounted"
     ELSE /\ Adopt(World)
          /\ phase' = "failed"
  /\ UNCHANGED << variant, divRef, props, deps, supplied >>

(* the caller re-renders the mounted adapter with props p *)
Render(p) ==
  /\ phase = "mounted"
  /\ LET w == CommitUpdate(variant, World, deps, p)
     IN  /\ TotalSubs(w) <= MaxSubs
         /\ Adopt(w)
  /\ props' = p
  /\ deps' = p
  /\ supplied' = [k \in OptionKeys |-> IF p[k] # Undef THEN p[k] ELSE supplied[k]]
  /\ UNCHANGED << variant, divRef, phase >>

(* the caller unmounts the adapter *)
Unmount ==
  /\ phase = "mounted"
  /\ Adopt(CommitUnmount(World))
  /\ phase' = "unmounted"
  /\ UNCHANGED << variant, divRef, props, deps, supplied >>

(* the wrapped instance raises event eventName with payload detail: every  *)
(* subscribed trampoline runs.  A destroyed instance keeps its             *)
(* subscriptions and may still raise events (work it had in flight).       *)
Emit(eventName, detail) ==
  /\ constructed > 0
  /\ UNCHANGED vars

(* the caller calls method m of the handle it obtained from the ref *)
Imperative(m, value, submit) ==
  /\ m \in Methods(variant)
  /\ m # "setQuery" => value = Undef /\ submit = Undef
  /\ m = "setQuery" => value # Undef
  /\ Adopt(Handle(World, m, value, submit))
  /\ UNCHANGED << variant, phase, divRef, props, deps, supplied >>

Next ==
  \/ Mount
  \/ \E p \in Props : Render(p)
  \/ Unmount
  \/ \E e \in EventSet, d \in Payloads : Emit(e, d)
  \/ \E m \in {"setQuery", "clearMap", "clearList", "focus", "blur"},
        value \in {Undef} \cup OptionValues, submit \in 0..2 : Imperative(m, value, submit)

Spec == Init /\ [][Next]_vars

(* ------------------------------------------- what a step does, observed  *)
(* calls the first commit makes on the wrapped instance *)
MountCalls == CommitMount(variant, World, props).calls

(* calls the commit of a re-render with props p makes *)
RenderCalls(p) == CommitUpdate(variant, World, deps, p).calls

(* calls the unmount makes *)
UnmountCalls == CommitUnmount(World).calls

(* calls method m of the handle makes *)
HandleCalls(m, value, submit) == Handle(World, m, value, submit).calls

(* caller callbacks that run when the instance raises eventName with detail *)
Delivered(eventName, detail) == Invoked(World, [type |-> eventName, detail |-> detail])

Mountable == phase = "rendered" /\ divRef

OpsOf(cs) == { cs[i].op : i \in DOMAIN cs }

CountOp(cs, op) == Cardinality({ i \in DOMAIN cs : cs[i].op = op })

(* ------------------------------------------------------------------- C1 *)
(* C1: in both variants, once the mount effect has run, exactly one        *)
(* instance has been constructed; it is the only one alive until unmount,  *)
(* which destroys it exactly once; no re-render, whatever options and      *)
(* callbacks it changes, calls the constructor or $destroy.                *)
C1_OneInstance ==
  /\ Cardinality(alive) <= 1
  /\ phase = "rendered" => constructed = 0 /\ destroyed = 0
  /\ Mountable => CountOp(MountCalls, "new") = 1 /\ CountOp(MountCalls, "$destroy") = 0
  /\ phase = "mounted" =>
       /\ constructed = 1 /\ destroyed = 0 /\ alive = {controlRef}
       /\ \A p \in Props : OpsOf(RenderCalls(p)) \cap {"new", "$destroy"} = {}
       /\ CountOp(UnmountCalls, "$destroy") = 1 /\ CountOp(UnmountCalls, "new") = 0
  /\ phase = "unmounted" => constructed = 1 /\ destroyed = 1 /\ alive = {}

(* a base adapter that was re-rendered (the option it does not forward     *)
(* changed after construction) and then unmounted                          *)
C1_Witness ==
  /\ variant = "base" /\ phase = "unmounted"
  /\ constructed = 1 /\ destroyed = 1
  /\ received[excludeTypes] # props[excludeTypes]

(* ------------------------------------------------------------------- C2 *)
(* C2: a re-render of a mounted adapter calls $set exactly once, with the  *)
(* one-key bag {name: newValue}, for each forwardable option whose value   *)
(* differs from the previous render's and is not undefined, and not at all *)
(* for any other option.                                                   *)
C2_UpdatePerChangedOption ==
  phase = "mounted" =>
    \A p \in Props :
      LET U == SelectSeq(RenderCalls(p), LAMBDA c : c.op = "$set")
      IN  /\ \A i \in DOMAIN U :
                /\ Cardinality(DOMAIN U[i].bag) = 1
                /\ \A n \in DOMAIN U[i].bag :
                      n \in Forwardable(variant) /\ U[i].bag[n] = Get(p, n)
          /\ \A n \in OptionKeys :
                Cardinality({ i \in DOMAIN U : n \in DOMAIN U[i].bag })
                  = IF n \in Forwardable(variant) /\ p[n] # props[n] /\ p[n] # Undef
                    THEN 1 ELSE 0

(* a mounted adapter rendered with apiKey 1 from which a re-render that    *)
(* changes only apiKey makes the single call $set({apiKey: 2})             *)
C2_Witness ==
  /\ phase = "mounted" /\ props[apiKey] = 1
  /\ RenderCalls([props EXCEPT ![apiKey] = 2])
       = << Call("$set", apiKey :> 2, << >>, Undef, Undef, TRUE) >>

(* ------------------------------------------------------------------- C3 *)
(* C3: no $set call of the first commit or of a re-render carries an       *)
(* undefined value; an option that is undefined in a render gets no $set   *)
(* call in that render, whatever its previous value.                       *)
NoUndefinedUpdate(cs, p) ==
  \A i \in DOMAIN cs :
    cs[i].op = "$set" =>
      \A n \in DOMAIN cs[i].bag : cs[i].bag[n] # Undef /\ Get(p, n) # Undef

C3_NoUndefinedUpdate ==
  /\ Mountable => NoUndefinedUpdate(MountCalls, props)
  /\ phase = "mounted" => \A p \in Props : NoUndefinedUpdate(RenderCalls(p), p)

(* apiKey was forwarded as 1 and is undefined in the latest render: the    *)
(* instance still holds 1, and omitting it again or anew makes no call     *)
C3_Witness ==
  /\ phase = "mounted" /\ props[apiKey] = Undef /\ received[apiKey] = 1
  /\ RenderCalls(props) = << >>

(* ------------------------------------------------------------------- C4 *)
(* C4: in both variants, after every commit of a mounted adapter, an event *)
(* whose callback is provided has exactly one subscription on the          *)
(* instance (a replaced callback's subscription is removed before the new  *)
(* one is installed, so there are never two).                              *)
C4_OneSubscription ==
  phase = "mounted" =>
    \A e \in EventSet :
      Get(props, getEventFnName(e)) # Undef => Len(subs[e]) = 1

(* ------------------------------------------------------------------- C5 *)
(* C5: in both variants, a commit in which an event has no callback makes  *)
(* no $on call for that event, and after it the event has no subscription. *)
NoSubscribeWithoutCallback(cs, p) ==
  \A i \in DOMAIN cs :
    cs[i].op = "$on" => Get(p, getEventFnName(cs[i].name)) # Undef

C5_NoCallbackNoSubscription ==
  /\ Mountable => NoSubscribeWithoutCallback(MountCalls, props)
  /\ phase = "mounted" =>
       /\ \A p \in Props : NoSubscribeWithoutCallback(RenderCalls(p), p)
       /\ \A e \in EventSet :
             Get(props, getEventFnName(e)) = Undef => subs[e] = << >>

(* ------------------------------------------------------------------- C6 *)
(* C6: while the adapter is mounted, an event raised with payload d runs   *)
(* the callback currently provided for it exactly once, with d, and runs   *)
(* no callback provided earlier and since replaced or removed.             *)
C6_DeliverToCurrentCallback ==
  phase = "mounted" =>
    \A e \in EventSet, d \in Payloads :
      Delivered(e, d) =
        IF Get(props, getEventFnName(e)) # Undef
        THEN << [cb |-> Get(props, getEventFnName(e)), event |-> e, arg |-> d] >>
        ELSE << >>

(* ------------------------------------------------------------------- C7 *)
(* C7: a re-render that keeps an event's callback reference makes no $on   *)
(* call and no unsubscribe call for that event, also when it changes       *)
(* option values.                                                          *)
C7_SameCallbackNoResubscribe ==
  phase = "mounted" =>
    \A p \in Props :
      LET cs == RenderCalls(p)
      IN  \A i \in DOMAIN cs :
            cs[i].op \in {"$on", "off"} =>
              Get(p, getEventFnName(cs[i].name)) # Get(props, getEventFnName(cs[i].name))

(* onSelect is cb1 and subscribed; the re-render apiKey 1 -> 2 that keeps  *)
(* onSelect makes the one call $set({apiKey: 2}) and nothing else          *)
C7_Witness ==
  /\ phase = "mounted" /\ props[apiKey] = 1 /\ props[onSelect] = 1
  /\ subs[select] = << 1 >>
  /\ RenderCalls([props EXCEPT ![apiKey] = 2])
       = << Call("$set", apiKey :> 2, << >>, Undef, Undef, TRUE) >>

(* ------------------------------------------------------------------- C8 *)
(* C8: the constructor receives the first render's bag without its         *)
(* on<EventName> keys, every other key with its first-render value; no     *)
(* bag passed to the constructor or to $set holds a callback key.          *)
NoCallbackKey(cs) ==
  \A i \in DOMAIN cs : DOMAIN cs[i].bag \cap CallbackKeys = {}

C8_ConstructorBag ==
  /\ Mountable =>
       /\ MountCalls[1].op = "new"
       /\ MountCalls[1].bag = [k \in OptionKeys |-> props[k]]
       /\ NoCallbackKey(MountCalls)
  /\ phase = "mounted" =>
       /\ \A p \in Props : NoCallbackKey(RenderCalls(p))
       /\ DOMAIN received \cap CallbackKeys = {}

(* mounted with a callback for select: the instance holds the option keys  *)
(* only                                                                    *)
C8_Witness ==
  /\ phase = "mounted" /\ props[onSelect] = 1 /\ props[onPick] = 2
  /\ DOMAIN received = OptionKeys
  /\ received[apiKey] = 1

(* ------------------------------------------------------------------- C9 *)
(* C9: after unmount no $set call is made and no caller callback runs,     *)
(* whatever the destroyed instance still raises and whatever method of a   *)
(* kept handle the caller calls.                                           *)
C9_SilentAfterUnmount ==
  phase = "unmounted" =>
    /\ \A e \in EventSet, d \in Payloads : Delivered(e, d) = << >>
    /\ \A m \in Methods(variant) : "$set" \notin OpsOf(HandleCalls(m, 1, Undef))

(* ------------------------------------------------------------------ C10 *)
(* C10: no call other than $destroy itself is made on a destroyed          *)
(* instance: not by the unmount after its $destroy, and not by a method of *)
(* a handle obtained earlier.                                              *)
OnlyOnLive(cs) ==
  \A i \in DOMAIN cs : cs[i].op # "$destroy" => cs[i].live

C10_NoCallAfterDestroy ==
  /\ phase = "mounted" => OnlyOnLive(UnmountCalls)
  /\ phase = "unmounted" =>
       \A m \in Methods(variant) : OnlyOnLive(HandleCalls(m, 1, Undef))

(* ------------------------------------------------------------------ C11 *)
(* C11: while controlRef.current is unset (the mount effect has not run,   *)
(* or has thrown), every method of the handle, with any arguments, and the *)
(* commit of any change of options or callbacks make no call on an         *)
(* instance and leave the adapter's state as it was.                       *)
C11_NoOpBeforeInstance ==
  controlRef = 0 =>
    /\ \A m \in Methods(variant), value \in {Undef} \cup OptionValues, submit \in 0..2 :
          Handle(World, m, value, submit) = World
    /\ \A p \in Props : CommitUpdate(variant, World, deps, p) = World

(* the first render gave both callbacks and both options, the mount effect *)
(* has not run yet: setQuery on the handle and a change of every key do    *)
(* nothing                                                                 *)
C11_Witness ==
  /\ phase = "rendered" /\ controlRef = 0 /\ constructed = 0
  /\ \A k \in CallerKeys : props[k] = 1
  /\ HandleCalls("setQuery", 1, Undef) = << >>
  /\ RenderCalls([k \in CallerKeys |-> 2]) = << >>

(* ------------------------------------------------------------------ C12 *)
(* C12: when divRef.current is unset the mount effect throws: the adapter  *)
(* is never mounted; it goes to the failed state with no instance          *)
(* constructed, controlRef.current unset, no $set, $on or $destroy made    *)
(* and no cleanup stored; in the failed state the mount effect does not    *)
(* run again, no commit or unmount follows, the effects declared after the *)
(* mount effect make no call and the handle makes none.                    *)
C12_MountFailure ==
  /\ ~divRef =>
       /\ phase \in {"rendered", "failed"}
       /\ constructed = 0 /\ destroyed = 0 /\ alive = {}
       /\ controlRef = 0 /\ mountCleanup = 0 /\ cleanups = NoCleanups
       /\ received = EmptyBag /\ subs = NoSubs
  /\ phase = "failed" =>
       /\ ~divRef
       /\ ~ENABLED Mount /\ ~ENABLED Unmount /\ \A p \in Props : ~ENABLED Render(p)
       /\ EventEffects(variant, PropEffects(World, propertyNames(variant), props),
                       eventIndexes, props).calls = << >>
       /\ \A m \in Methods(variant) : HandleCalls(m, 1, Undef) = << >>

(* the mount effect threw although the first render gave options and       *)
(* callbacks: nothing was constructed, set or subscribed                   *)
C12_Witness ==
  /\ phase = "failed" /\ ~divRef
  /\ props[apiKey] = 1 /\ props[onSelect] = 1
  /\ constructed = 0 /\ controlRef = 0 /\ subs = NoSubs

(* ------------------------------------------------------------------ C13 *)
(* C13: while the adapter is mounted, a method of the handle makes exactly *)
(* one call on the wrapped instance, of the method of the same name, and   *)
(* changes nothing else: setQuery(value, submit) passes value and submit,  *)
(* with submit = true when it was omitted; focus, blur, clearMap and       *)
(* clearList pass no argument.  The handle has setQuery, focus, blur in    *)
(* the base variant and clearMap, clearList besides in the extended one.   *)
Delegated(m, value, submit) ==
  IF m = "setQuery"
  THEN Call(m, EmptyBag, << >>, value, IF submit = Undef THEN 1 ELSE submit, TRUE)
  ELSE Call(m, EmptyBag, << >>, Undef, Undef, TRUE)

C13_ImperativeDelegation ==
  /\ Methods(variant) = IF variant = "base"
                        THEN {"focus", "blur", "setQuery"}
                        ELSE {"focus", "blur", "setQuery", "clearMap", "clearList"}
  /\ phase = "mounted" =>
       \A m \in Methods(variant), value \in OptionValues, submit \in 0..2 :
          Handle(World, m, value, submit)
            = [World EXCEPT !.calls = << Delegated(m, value, submit) >>]

(* a mounted extended adapter: setQuery(2) reaches the instance as         *)
(* setQuery(2, true), setQuery(2, false) as it is, clearMap() as clearMap() *)
C13_Witness ==
  /\ variant = "ext" /\ phase = "mounted" /\ controlRef \in alive
  /\ HandleCalls("setQuery", 2, Undef)
       = << Call("setQuery", EmptyBag, << >>, 2, 1, TRUE) >>
  /\ HandleCalls("setQuery", 2, 2)
       = << Call("setQuery", EmptyBag, << >>, 2, 2, TRUE) >>
  /\ HandleCalls("clearMap", Undef, Undef)
       = << Call("clearMap", EmptyBag, << >>, Undef, Undef, TRUE) >>

(* ------------------------------------------------------------------ C14 *)
(* C14: after every commit of a mounted adapter, the first one included,   *)
(* the value the instance holds for a forwardable option (from the         *)
(* constructor or the latest $set of it) is the value of the latest render *)
(* that gave the option a value other than undefined; if no render gave    *)
(* one, the instance has received no value for it.                         *)
C14_LastDefinedValue ==
  phase = "mounted" =>
    \A k \in OptionKeys \cap Forwardable(variant) : received[k] = supplied[k]

(* an earlier render gave apiKey 2 and the latest one omits it: the       *)
(* instance holds 2                                                        *)
C14_Witness ==
  /\ phase = "mounted" /\ props[apiKey] = Undef
  /\ supplied[apiKey] = 2 /\ received[apiKey] = 2
  /\ excludeTypes \in Forwardable(variant) /\ received[excludeTypes] = supplied[excludeTypes]

(* ------------------------------------------------------------------ C15 *)
(* C15: the first commit calls the constructor once, as its first call on  *)
(* the instance; after it, it calls $set exactly once, with the one-key    *)
(* bag {name: value}, for each forwardable option whose first-render value *)
(* is not undefined, the value being the one the constructor got, and not  *)
(* at all for any other option; every $set and every $on of the commit     *)
(* comes after the constructor call.                                       *)
C15_MountUpdatesAfterConstructor ==
  Mountable =>
    LET cs == MountCalls
        U == SelectSeq(cs, LAMBDA c : c.op = "$set")
    IN  /\ cs[1].op = "new" /\ CountOp(cs, "new") = 1
        /\ \A i \in DOMAIN cs : cs[i].op \in {"$set", "$on"} => i > 1
        /\ \A i \in DOMAIN U :
              /\ Cardinality(DOMAIN U[i].bag) = 1
              /\ \A n \in DOMAIN U[i].bag :
                    /\ n \in Forwardable(variant)
                    /\ U[i].bag[n] = props[n] /\ U[i].bag[n] = cs[1].bag[n]
        /\ \A n \in OptionKeys :
              Cardinality({ i \in DOMAIN U : n \in DOMAIN U[i].bag })
                = IF n \in Forwardable(variant) /\ props[n] # Undef THEN 1 ELSE 0

(* an extended adapter about to mount with apiKey 1, excludeTypes 2 and a  *)
(* callback for select only: the constructor, the two $set, then the $on   *)
C15_Witness ==
  /\ Mountable /\ variant = "ext"
  /\ props[apiKey] = 1 /\ props[excludeTypes] = 2
  /\ props[onSelect] = 1 /\ props[onPick] = Undef
  /\ MountCalls
       = << Call("new", [k \in OptionKeys |-> props[k]], << >>, Undef, Undef, TRUE),
            Call("$set", apiKey :> 1, << >>, Undef, Undef, TRUE),
            Call("$set", excludeTypes :> 2, << >>, Undef, Undef, TRUE),
            Call("$on", EmptyBag, select, 1, Undef, TRUE) >>

(* ------------------------------------------------------------------ C16 *)
(* C16: a key that is no callback name and is not in the variant's         *)
(* propertyNames is given to the instance by the constructor, with its     *)
(* first-render value, and by nothing else: the first commit makes no $set *)
(* of it, and a re-render that changes it, alone or with other keys, makes *)
(* no $set of it and leaves the value the instance holds for it as it was. *)
(* For a key of the state this is said of every first commit and every     *)
(* re-render; for showFullGeometry in the extended variant, of a first     *)
(* commit that gives it the value 1 and a re-render that gives it 2.       *)
UnlistedKeys(v) == {excludeTypes, showFullGeometry} \ Forwardable(v)

NoUpdateOf(cs, k) ==
  \A i \in DOMAIN cs : cs[i].op = "$set" => k \notin DOMAIN cs[i].bag

C16_UnlistedKeyOnlyConstructed ==
  /\ \A k \in UnlistedKeys(variant) \cap OptionKeys :
        /\ Mountable =>
              LET w == CommitMount(variant, World, props)
              IN  /\ NoUpdateOf(w.calls, k)
                  /\ w.calls[1].op = "new" /\ w.calls[1].bag[k] = props[k]
                  /\ w.received[k] = props[k]
        /\ phase = "mounted" =>
              \A p \in Props :
                LET w == CommitUpdate(variant, World, deps, p)
                IN  NoUpdateOf(w.calls, k) /\ w.received[k] = received[k]
  /\ \A k \in UnlistedKeys(variant) \ OptionKeys :
        Mountable =>
          \A p \in Props :
            LET first == (k :> 1) @@ props
                later == (k :> 2) @@ p
                w0 == CommitMount(variant, World, first)
                w1 == CommitUpdate(variant, [w0 EXCEPT !.calls = << >>], first, later)
            IN  /\ NoUpdateOf(w0.calls, k)
                /\ w0.calls[1].op = "new" /\ w0.calls[1].bag[k] = 1
                /\ w0.received[k] = 1
                /\ NoUpdateOf(w1.calls, k) /\ w1.received[k] = 1

(* a mounted base adapter whose first render gave excludeTypes 1 and whose *)
(* latest render gives 2: the instance holds 1, and a further change makes *)
(* no call                                                                 *)
C16_Witness ==
  /\ variant = "base" /\ phase = "mounted"
  /\ props[excludeTypes] = 2 /\ received[excludeTypes] = 1
  /\ RenderCalls([props EXCEPT ![excludeTypes] = 1]) = << >>

====
